---- MODULE Spec2Model ----
(***************************************************************************)
(* Model of app.py, the Streamlit script of the Medical Insurance Cost     *)
(* Predictor.  The Streamlit runtime executes the whole script top to      *)
(* bottom on every page load, widget change and button press; one such     *)
(* execution is one step of the model.  Process state is the artifact on   *)
(* disk and the st.cache_resource memo of load_model; session state is the *)
(* value of each widget; the remaining variables record what the last      *)
(* script run computed and displayed.                                      *)
(*                                                                         *)
(* Money and BMI are fixed-point integers in hundredths (22.86 is 2286).   *)
(* A Python string that the code lower-cases is a sequence of one-letter   *)
(* strings; a value that may be absent (None, nothing displayed) is a      *)
(* sequence of length 0 or 1.                                              *)
(***************************************************************************)
EXTENDS Integers, Sequences, FiniteSets, TLC

VARIABLES
    artifact,   \* Medical.pickle on disk: "missing", "corrupt" or a version
    cache,      \* st.cache_resource memo of load_model(): <<>> or <<version>>
    loaded,     \* history: the versions pickle.load has deserialized, in order
    height, weight, age, sex, children, smoker, region,  \* widget values
    rendered,   \* the last run got as far as drawing the form and the button
    trigger,    \* what caused the last run: "none", "load", "widget", "button"
    run         \* locals and output of the last script run

vars == <<artifact, cache, loaded, height, weight, age, sex, children, smoker,
          region, rendered, trigger, run>>

\* ------------------------------------------------------------------ bounds
MaxLoads == 2          \* the history of deserializations is kept up to this length

\* ------------------------------------------------------- program constants
HeightMax == 220
HeightDefault == 175
WeightMin == 40
WeightDefault == 70
AgeMax == 100
AgeDefault == 30
ChildrenMin == 0
ChildrenMax == 10
ChildrenDefault == 0
LowLimit == 5000
ModerateLimit == 15000

\* ---------------------------------------------------------------- strings
UpperCase == <<"A","B","C","D","E","F","G","H","I","J","K","L","M",
               "N","O","P","Q","R","S","T","U","V","W","X","Y","Z">>
LowerCase == <<"a","b","c","d","e","f","g","h","i","j","k","l","m",
               "n","o","p","q","r","s","t","u","v","w","x","y","z">>

\* str.lower() on one character: an upper-case letter maps to its lower-case
\* letter, anything else is unchanged.
LowerChar(c) ==
    IF \E i \in DOMAIN UpperCase : UpperCase[i] = c
    THEN LowerCase[CHOOSE i \in DOMAIN UpperCase : UpperCase[i] = c]
    ELSE c

\* str.lower()
Lower(s) == [i \in DOMAIN s |-> LowerChar(s[i])]

Southwest == <<"S","o","u","t","h","w","e","s","t">>
Southeast == <<"S","o","u","t","h","e","a","s","t">>
Northwest == <<"N","o","r","t","h","w","e","s","t">>
Northeast == <<"N","o","r","t","h","e","a","s","t">>

\* ------------------------------------------------------------ widget ranges
\* The values a user gives each widget: a sample of each slider's and number
\* input's range that holds the default, an end point and, for the height,
\* the value 160 at which the exact BMI is a rounding tie.
Heights == {160, HeightDefault, HeightMax}
Weights == {WeightMin, WeightDefault}
Ages == {AgeDefault, AgeMax}
ChildrenCounts == {ChildrenMin, ChildrenMax}
SexOptions == <<"Male", "Female">>
SmokerOptions == <<"Yes", "No">>
RegionOptions == <<Southwest, Southeast, Northwest, Northeast>>

Range(s) == {s[i] : i \in DOMAIN s}

\* ------------------------------------------------------------ model loading
Versions == {"v1", "v2"}
ArtifactStates == {"missing", "corrupt"} \cup Versions

\* load_model without the memo: the file is read on every call.
LoadModelUncached ==
    IF artifact \in Versions
    THEN [model |-> <<artifact>>, cache |-> <<artifact>>,
          loaded |-> IF Len(loaded) < MaxLoads THEN Append(loaded, artifact) ELSE loaded,
          error |-> "none"]
    ELSE [model |-> <<>>, cache |-> cache, loaded |-> loaded,
          error |-> IF artifact = "missing" THEN "FileNotFoundError" ELSE "UnpicklingError"]

\* load_model whose failure is swallowed: the script goes on with no model.
LoadModelSwallow ==
    IF cache # <<>>
    THEN [model |-> cache, cache |-> cache, loaded |-> loaded, error |-> "none"]
    ELSE IF artifact \in Versions
    THEN [model |-> <<artifact>>, cache |-> <<artifact>>,
          loaded |-> IF Len(loaded) < MaxLoads THEN Append(loaded, artifact) ELSE loaded,
          error |-> "none"]
    ELSE [model |-> <<>>, cache |-> cache, loaded |-> loaded, error |-> "none"]

\* model = load_model() under @st.cache_resource: a memo hit returns the cached
\* object without running the body; a miss runs open + pickle.load, and only a
\* call that returns is memoized (an exception leaves the memo empty).
LoadModel ==
    IF cache # <<>>
    THEN [model |-> cache, cache |-> cache, loaded |-> loaded, error |-> "none"]
    ELSE IF artifact \in Versions
    THEN [model |-> <<artifact>>, cache |-> <<artifact>>,
          loaded |-> IF Len(loaded) < MaxLoads THEN Append(loaded, artifact) ELSE loaded,
          error |-> "none"]
    ELSE [model |-> <<>>, cache |-> cache, loaded |-> loaded,
          error |-> IF artifact = "missing" THEN "FileNotFoundError" ELSE "UnpicklingError"]

\* ---------------------------------------------------------------------- BMI
\* n / d rounded to the nearest integer, an exact half rounding down (d > 0).
RoundNearest(n, d) ==
    LET q == n \div d
        r == n % d
    IN  IF 2 * r > d THEN q + 1 ELSE q

\* bmi_calculated = round(weight / ((height / 100) ** 2), 2), in hundredths:
\* <<>> when the division raises ZeroDivisionError.  weight / (height/100)^2
\* in hundredths is weight * 10^6 / height^2.  On the widget ranges the float
\* result is never an exact half: the only exact ties are at height 160, where
\* (160 / 100) ** 2 is 2.5600000000000005 and the quotient falls just below
\* the tie, so CPython's round gives the lower neighbour.
computeBMI(h, w) ==
    IF h = 0 THEN <<>> ELSE <<RoundNearest(w * 1000000, h * h)>>

\* ----------------------------------------------------------------- encoding
\* sex_num with the two codes exchanged.
EncodeSexSwapped(s) == IF s = "Female" THEN 1 ELSE 0

\* sex_num = 0 if sex == "Female" else 1
EncodeSex(s) == IF s = "Female" THEN 0 ELSE 1

\* smoker_num = 0 if smoker == "No" else 1
EncodeSmoker(s) == IF s = "No" THEN 0 ELSE 1

\* region_map = {"southwest": 0, "southeast": 1, "northwest": 2, "northeast": 3}
region_map ==
    (<<"s","o","u","t","h","w","e","s","t">> :> 0) @@
    (<<"s","o","u","t","h","e","a","s","t">> :> 1) @@
    (<<"n","o","r","t","h","w","e","s","t">> :> 2) @@
    (<<"n","o","r","t","h","e","a","s","t">> :> 3)

\* region_map.get(region.lower(), 0): an unknown region defaults to 0.
EncodeRegionDefault(r) ==
    LET key == Lower(r)
    IN  IF key \in DOMAIN region_map THEN <<region_map[key]>> ELSE <<0>>

\* region_num = region_map[region.lower()]: <<>> when the lookup raises KeyError.
EncodeRegion(r) ==
    LET key == Lower(r)
    IN  IF key \in DOMAIN region_map THEN <<region_map[key]>> ELSE <<>>

\* input_data: the one-row DataFrame, as its columns in order.
InputData(a, sn, b, c, smn, rn) ==
    << <<"age", a>>, <<"sex", sn>>, <<"bmi", b>>,
       <<"children", c>>, <<"smoker", smn>>, <<"region", rn>> >>

\* --------------------------------------------------------------- prediction
\* The costs (in hundredths) the opaque regressor is taken to return: below
\* zero, zero, and both sides of each threshold of the result display.
Costs == {-100, LowLimit * 100 - 1, LowLimit * 100, ModerateLimit * 100 - 1,
          ModerateLimit * 100, ModerateLimit * 100 + 1}

\* model.predict(input_data): what the call can do, <<>> when it raises.  The
\* regressor is opaque, so any cost or a failure is possible; with no model
\* object the call can only raise.
Predict(m, data) ==
    IF m = <<>> THEN {<<>>} ELSE {<<>>} \cup {<<c>> : c \in Costs}

\* The tier branches with the first threshold taken inclusively.
ClassifyOffByOne(cost) ==
    IF cost <= LowLimit * 100 THEN {"Low"}
    ELSE IF LowLimit * 100 <= cost /\ cost < ModerateLimit * 100 THEN {"Moderate"}
    ELSE {"High"}

\* The if / elif / else of the result display: the set of tier messages shown
\* (st.info is Low, st.warning is Moderate, st.error is High).
Classify(cost) ==
    IF cost < LowLimit * 100 THEN {"Low"}
    ELSE IF LowLimit * 100 <= cost /\ cost < ModerateLimit * 100 THEN {"Moderate"}
    ELSE {"High"}

\* ------------------------------------------------------------ the script run
\* Locals and output of a run that has executed nothing yet.
Blank ==
    [steps |-> <<>>, error |-> "none", model |-> <<>>, bmi_calculated |-> <<>>,
     bmi |-> <<>>, input_data |-> <<>>, prediction |-> <<>>, cost |-> <<>>,
     metric |-> <<>>,
     messages |-> {}]

\* The BMI input holding on to the value it first showed in the session.
BmiInputStale(value) == IF rendered /\ run.bmi # <<>> THEN run.bmi ELSE value

\* bmi = st.number_input(..., value=bmi_calculated, disabled=True): the widget
\* has no key, so it is identified by its arguments and a new value makes a
\* new widget; disabled, it returns the value it is given.
BmiInput(value) == value

\* A failed predict answered with a placeholder cost of 0.
ShowResultPlaceholder(r, outcome) ==
    LET c == IF outcome = <<>> THEN 0 ELSE outcome[1]
    IN  [r EXCEPT !.cost = <<c>>, !.metric = <<c>>, !.messages = Classify(c),
                  !.steps = Append(r.steps, "classify")]

\* From the return of model.predict to the end of the button block: an
\* exception from predict propagates and ends the run; otherwise cost =
\* prediction[0] is shown by st.metric and classified.
ShowResult(r, outcome) ==
    IF outcome = <<>>
    THEN [r EXCEPT !.error = "InferenceError"]
    ELSE [r EXCEPT !.cost = outcome, !.metric = outcome,
                   !.messages = Classify(outcome[1]),
                   !.steps = Append(r.steps, "classify")]

\* The body of `if st.button(...)` up to the predict call: the run record
\* after encoding, and whether predict is to be called.
Encode(r, a, sx, ch, sm, rg) ==
    LET region_num == EncodeRegion(rg)
        enc == [r EXCEPT !.steps = Append(r.steps, "encode")]
    IN  IF region_num = <<>>
        THEN [enc EXCEPT !.error = "KeyError"]
        ELSE [enc EXCEPT !.input_data =
                 InputData(a, EncodeSex(sx), r.bmi[1], ch, EncodeSmoker(sm), region_num[1])]

\* The button is drawn true on every run.
ButtonPressedAlways(trig) == TRUE

\* st.button(...) is True only in the run its press triggered.
ButtonPressed(trig) == trig = "button"

\* One execution of app.py, top to bottom, with the widgets returning
\* h, w, a, sx, ch, sm, rg.
Script(trig, h, w, a, sx, ch, sm, rg) ==
    LET ld == LoadModel
        r0 == [Blank EXCEPT !.steps = <<"load_model">>, !.model = ld.model,
                            !.error = ld.error]
        b == computeBMI(h, w)
        r1 == [r0 EXCEPT !.steps = Append(r0.steps, "computeBMI"),
                         !.bmi_calculated = b, !.bmi = BmiInput(b)]
        r2 == Encode(r1, a, sx, ch, sm, rg)
        r3 == [r2 EXCEPT !.steps = Append(r2.steps, "predict")]
    IN  /\ cache' = ld.cache
        /\ loaded' = ld.loaded
        /\ trigger' = trig
        /\ height' = h /\ weight' = w /\ age' = a /\ sex' = sx
        /\ children' = ch /\ smoker' = sm /\ region' = rg
        /\ UNCHANGED artifact
        /\ IF ld.error # "none"
           THEN run' = r0 /\ rendered' = FALSE
           ELSE IF b = <<>>
           THEN run' = [r1 EXCEPT !.error = "ZeroDivisionError", !.bmi = <<>>]
                /\ rendered' = FALSE
           ELSE /\ rendered' = TRUE
                /\ IF ~ButtonPressed(trig)
                   THEN run' = r1
                   ELSE IF r2.error # "none"
                   THEN run' = r2
                   ELSE \E outcome \in Predict(r2.model, r2.input_data) :
                            run' = ShowResult([r3 EXCEPT !.prediction = outcome], outcome)

\* ------------------------------------------------------------------ actions
\* A browser opens or reloads the page: a new session, every widget at its
\* default (a select box defaults to its first option).
PageLoad ==
    Script("load", HeightDefault, WeightDefault, AgeDefault, SexOptions[1],
           ChildrenDefault, SmokerOptions[1], RegionOptions[1])

SetHeight ==
    /\ rendered
    /\ \E v \in Heights \ {height} :
           Script("widget", v, weight, age, sex, children, smoker, region)

SetWeight ==
    /\ rendered
    /\ \E v \in Weights \ {weight} :
           Script("widget", height, v, age, sex, children, smoker, region)

SetAge ==
    /\ rendered
    /\ \E v \in Ages \ {age} :
           Script("widget", height, weight, v, sex, children, smoker, region)

SetSex ==
    /\ rendered
    /\ \E v \in Range(SexOptions) \ {sex} :
           Script("widget", height, weight, age, v, children, smoker, region)

SetChildren ==
    /\ rendered
    /\ \E v \in ChildrenCounts \ {children} :
           Script("widget", height, weight, age, sex, v, smoker, region)

SetSmoker ==
    /\ rendered
    /\ \E v \in Range(SmokerOptions) \ {smoker} :
           Script("widget", height, weight, age, sex, children, v, region)

SetRegion ==
    /\ rendered
    /\ \E v \in Range(RegionOptions) \ {region} :
           Script("widget", height, weight, age, sex, children, smoker, v)

\* The user presses "Predict My Cost!".
PressButton ==
    /\ rendered
    /\ Script("button", height, weight, age, sex, children, smoker, region)

\* The environment replaces, removes or damages Medical.pickle.
ArtifactChanges ==
    /\ \E s \in ArtifactStates \ {artifact} : artifact' = s
    /\ UNCHANGED <<cache, loaded, height, weight, age, sex, children, smoker,
                   region, rendered, trigger, run>>

Init ==
    /\ artifact \in ArtifactStates
    /\ cache = <<>>
    /\ loaded = <<>>
    /\ height = HeightDefault /\ weight = WeightDefault /\ age = AgeDefault
    /\ sex = SexOptions[1] /\ children = ChildrenDefault
    /\ smoker = SmokerOptions[1] /\ region = RegionOptions[1]
    /\ rendered = FALSE
    /\ trigger = "none"
    /\ run = Blank

Next ==
    \/ PageLoad
    \/ SetHeight
    \/ SetWeight
    \/ SetAge
    \/ SetSex
    \/ SetChildren
    \/ SetSmoker
    \/ SetRegion
    \/ PressButton
    \/ ArtifactChanges

Spec == Init /\ [][Next]_vars

\* ------------------------------------------------- the pipeline as a function
\* The script applied once, with the button pressed, to inputs that are not
\* confined to what the widgets offer: the conversion, the encoding and the
\* result display as functions of their arguments.  The model is already
\* loaded.
AnyHeights == {0 - HeightDefault, 0, 160, HeightDefault}
AnySex == {"Male", "Female", "female", "Other"}
AnySmoker == {"Yes", "No", "no", "Maybe"}
SouthwestSpellings == {Southwest}
SoutheastSpellings == {Southeast,
                       <<"S","O","U","T","H","E","A","S","T">>,
                       <<"s","o","u","t","h","e","a","s","t">>}
NorthwestSpellings == {Northwest, <<"n","o","r","t","h","W","E","S","T">>}
NortheastSpellings == {Northeast}
KnownSpellings ==
    SouthwestSpellings \cup SoutheastSpellings \cup NorthwestSpellings
        \cup NortheastSpellings
Midwest == <<"M","i","d","w","e","s","t">>
UnknownRegions == {Midwest, <<>>, <<"S","o","u","t","h">>}

InitPipeline ==
    /\ artifact = "v1"
    /\ cache = <<"v1">>
    /\ loaded = <<"v1">>
    /\ height \in AnyHeights /\ weight \in Weights /\ age \in Ages
    /\ sex \in AnySex /\ children \in ChildrenCounts
    /\ smoker \in AnySmoker /\ region \in KnownSpellings \cup UnknownRegions
    /\ rendered = FALSE
    /\ trigger = "none"
    /\ run = Blank

ApplyPipeline ==
    /\ trigger = "none"
    /\ Script("button", height, weight, age, sex, children, smoker, region)

NextPipeline == ApplyPipeline

SpecPipeline == InitPipeline /\ [][NextPipeline]_vars

\* ------------------------------------------------------------------- claims
Count(x, s) == Cardinality({i \in DOMAIN s : s[i] = x})
Invoked(step) == \E i \in DOMAIN run.steps : run.steps[i] = step
Abs(x) == IF x < 0 THEN 0 - x ELSE x

\* C1: whatever cost the predictor returns (negative costs and the exact
\* boundaries 5000 and 15000 included), the result display shows exactly one
\* tier: Low when cost < 5000, Moderate when 5000 <= cost < 15000, High when
\* cost >= 15000.
C1_ExactlyOneTier ==
    run.cost # <<>> =>
        LET c == run.cost[1]
        IN  /\ Cardinality(run.messages) = 1
            /\ ("Low" \in run.messages) <=> (c < LowLimit * 100)
            /\ ("Moderate" \in run.messages) <=>
                   (LowLimit * 100 <= c /\ c < ModerateLimit * 100)
            /\ ("High" \in run.messages) <=> (c >= ModerateLimit * 100)

C1_Witness ==
    /\ trigger = "button"
    /\ run.cost = <<LowLimit * 100>>
    /\ run.messages = {"Moderate"}

\* C2: for sex in {Male, Female}, smoker in {Yes, No} and a region name in
\* any letter case, the feature vector handed to the predictor is, in this
\* order, age (unchanged), sex (Female 0, Male 1), bmi, children (unchanged),
\* smoker (No 0, Yes 1), region (southwest 0, southeast 1, northwest 2,
\* northeast 3).
C2_Encoding ==
    (/\ trigger = "button"
     /\ run.bmi # <<>>
     /\ sex \in {"Male", "Female"}
     /\ smoker \in {"Yes", "No"}
     /\ region \in KnownSpellings)
    => /\ Invoked("predict")
       /\ run.input_data =
            << <<"age", age>>,
               <<"sex", CASE sex = "Female" -> 0 [] sex = "Male" -> 1>>,
               <<"bmi", run.bmi[1]>>,
               <<"children", children>>,
               <<"smoker", CASE smoker = "No" -> 0 [] smoker = "Yes" -> 1>>,
               <<"region", CASE region \in SouthwestSpellings -> 0
                             [] region \in SoutheastSpellings -> 1
                             [] region \in NorthwestSpellings -> 2
                             [] region \in NortheastSpellings -> 3>> >>

C2_Witness ==
    /\ Invoked("predict")
    /\ sex = "Female" /\ smoker = "No" /\ age = AgeMax /\ children = ChildrenMax
    /\ region = <<"S","O","U","T","H","E","A","S","T">>
    /\ run.input_data[2] = <<"sex", 0>>
    /\ run.input_data[5] = <<"smoker", 0>>
    /\ run.input_data[6] = <<"region", 1>>

\* C3: a region that is none of the four names after lower-casing makes the
\* encoding fail with an error, and the predictor is not invoked: no cost and
\* no tier is produced.
C3_UnknownRegionRejected ==
    (trigger = "button" /\ region \in UnknownRegions)
    => /\ ~Invoked("predict")
       /\ run.input_data = <<>>
       /\ run.cost = <<>> /\ run.metric = <<>> /\ run.messages = {}
       /\ Invoked("encode") => run.error = "KeyError"
       /\ run.error # "none"

C3_Witness ==
    /\ trigger = "button"
    /\ region = Midwest
    /\ Invoked("encode")
    /\ run.error = "KeyError"

C5_LoadedOnce ==
    /\ Len(loaded) <= 1
    /\ cache # <<>> => (Len(loaded) = 1 /\ cache = <<loaded[1]>>)
    /\ Invoked("predict") => (Len(loaded) = 1 /\ run.model = <<loaded[1]>>)

C5_Witness ==
    /\ Len(loaded) = 1
    /\ artifact \in Versions \ {loaded[1]}
    /\ trigger = "button"
    /\ Invoked("predict")
    /\ run.model = <<loaded[1]>>

\* C6: when the artifact is missing or does not deserialize, loading raises
\* and the run makes no predict call; no prediction is ever performed without
\* a successfully loaded model.
C6_NoPredictWithoutModel ==
    /\ (cache = <<>> /\ trigger # "none") =>
           /\ run.error \in {"FileNotFoundError", "UnpicklingError"}
           /\ run.steps = <<"load_model">>
           /\ ~rendered
    /\ run.error \in {"FileNotFoundError", "UnpicklingError"} =>
           /\ ~Invoked("predict")
           /\ run.model = <<>>
           /\ run.cost = <<>> /\ run.messages = {}
    /\ Invoked("predict") => (run.model # <<>> /\ run.model[1] \in Versions)

C6_Witness ==
    /\ trigger = "load"
    /\ artifact = "missing"
    /\ run.error = "FileNotFoundError"
    /\ ~Invoked("predict")

C8_BmiIsCurrent ==
    Invoked("predict") =>
        /\ run.input_data[3][1] = "bmi"
        /\ 2 * Abs(run.input_data[3][2] * height * height - weight * 1000000)
               <= height * height
        /\ (height = 175 /\ weight = 70) => run.input_data[3][2] = 2286

C8_Witness ==
    /\ trigger = "button"
    /\ Invoked("predict")
    /\ height = HeightMax /\ weight = WeightMin
    /\ run.input_data[3] = <<"bmi", 826>>

\* C9: when the predictor fails on a well-formed feature vector the failure
\* ends the run: no cost is displayed, no placeholder is substituted, no tier
\* message is shown, and predict has been called once only.
C9_InferenceErrorSurfaces ==
    (/\ trigger = "button"
     /\ Invoked("predict")
     /\ run.prediction = <<>>)
    => /\ run.input_data # <<>>
       /\ run.error = "InferenceError"
       /\ run.cost = <<>> /\ run.metric = <<>> /\ run.messages = {}
       /\ ~Invoked("classify")
       /\ Count("predict", run.steps) = 1

C9_Witness ==
    /\ trigger = "button"
    /\ Invoked("predict")
    /\ run.prediction = <<>>
    /\ run.error = "InferenceError"
    /\ run.cost = <<>>

====
